---- MODULE Spec2Model ----
(***************************************************************************)
(* Model of the genre pipeline of frontend/src/script.ts:                  *)
(*   categorizeTracksByGenre (lines 203-233) and                           *)
(*   enrichTracksWithGenres / fetchArtistGenres (lines 158-201),           *)
(* and of the start of the page: init, loadUserData and                    *)
(*   redirectToAuthCodeFlow (lines 5-90).                                  *)
(* JavaScript objects are modelled with their own-property order and the   *)
(* Object.prototype chain, since both decide what the functions return.    *)
(***************************************************************************)
EXTENDS Integers, Sequences, FiniteSets, TLC

VARIABLES
    tracks,        \* the argument: of categorizeTracksByGenre under Spec,
                   \* of enrichTracksWithGenres under SpecEnrich
    catPc,         \* "ready" | "categorized" | "threw" | "replayed" | "off"
    result,        \* completion of categorizeTracksByGenre(tracks)
    replay,        \* completion of categorizing the flattened result again
    enrPc,         \* "ready" | "awaiting" | "returned" | "threw" | "off"
    requests,      \* the artist_ids lists POSTed to /api/artists so far
    response,      \* how the fetch of /api/artists completed
    enriched,      \* the list enrichTracksWithGenres returned
    storage,       \* localStorage: access_token, token_expiry, verifier
    urlCode,       \* whether the page's URL carries a code parameter
    authPc,        \* "start" | "exchanging" | "profile" | "tracks" | "done"
                   \* | "off": the await init / loadUserData stands at
    accessToken,   \* the argument of loadUserData
    failed,        \* the requests of this page load that have failed
    redirects,     \* how redirectToAuthCodeFlow was called so far: for
                   \* each call, its reason and localStorage at the call
    redirectPc     \* "none" | "hashing" | "navigated": the position of
                   \* redirectToAuthCodeFlow

catVars == <<catPc, result, replay>>
enrVars == <<enrPc, requests, response, enriched>>
authVars == <<storage, urlCode, authPc, accessToken, failed, redirects,
              redirectPc>>
vars == <<tracks, catPc, result, replay, enrPc, requests, response, enriched,
          storage, urlCode, authPc, accessToken, failed, redirects,
          redirectPc>>

----------------------------------------------------------------------------
(* Bounds of the model *)

\* maximal number of tracks in an input list
MaxTracks == 3
\* maximal number of genre labels over all tracks of an input list
MaxLabels == 3
\* maximal number of tracks in an input list of the enricher
MaxEnrichTracks == 2
\* maximal number of artist references over all tracks of such a list
MaxArtistRefs == 3
\* maximal number of genre labels over all artists of a catalog answer
MaxCatalogLabels == 2

----------------------------------------------------------------------------
(* Values *)

\* Genre label strings the upstream catalog may supply: two plain names, two
\* canonical array-index strings, the reserved bucket name and the name of
\* a member of Object.prototype.
GenreLabels == {"rock", "pop", "7", "10", "Uncategorized", "constructor"}

\* The property keys that are canonical array indices, with their numeric
\* value (ECMAScript: ToString(ToUint32(k)) = k and k < 2^32 - 1).
ArrayIndexValue == ("7" :> 7) @@ ("10" :> 10)

IsArrayIndex(k) == k \in DOMAIN ArrayIndexValue

\* Names every object literal {} inherits from Object.prototype.
ObjectPrototypeKeys ==
    {"constructor", "toString", "valueOf", "hasOwnProperty", "__proto__"}

Range(s) == {s[i] : i \in DOMAIN s}

\* [...new Set(s)]: duplicates removed, first occurrences kept in order
RECURSIVE Unique(_)
Unique(s) ==
    IF s = <<>> THEN <<>>
    ELSE LET init == Unique(SubSeq(s, 1, Len(s) - 1))
             last == s[Len(s)]
         IN IF last \in Range(init) THEN init ELSE Append(init, last)

----------------------------------------------------------------------------
(* A JavaScript object literal: own properties in creation order *)

EmptyObject == [keys |-> <<>>, vals |-> <<>>]

HasOwn(obj, k) == k \in Range(obj.keys)

\* !obj[k] is false when obj[k] is an own array or an inherited member
Truthy(obj, k) == HasOwn(obj, k) \/ k \in ObjectPrototypeKeys

\* obj[k] = v for a key that is own or not inherited
SetProperty(obj, k, v) ==
    IF HasOwn(obj, k)
    THEN [obj EXCEPT !.vals = [j \in DOMAIN obj.vals |-> IF j = k THEN v ELSE obj.vals[j]]]
    ELSE [keys |-> Append(obj.keys, k),
          vals |-> [j \in Range(obj.keys) \cup {k} |->
                        IF j = k THEN v ELSE obj.vals[j]]]

RECURSIVE AscendingIndexKeys(_)
AscendingIndexKeys(S) ==
    IF S = {} THEN <<>>
    ELSE LET m == CHOOSE k \in S :
                     \A j \in S : ArrayIndexValue[k] <= ArrayIndexValue[j]
         IN <<m>> \o AscendingIndexKeys(S \ {m})

IsStringKey(k) == ~IsArrayIndex(k)

\* Object.keys / Object.entries / Object.values order: array-index keys in
\* ascending numeric order, then the other keys in creation order
OwnKeys(obj) ==
    AscendingIndexKeys({k \in Range(obj.keys) : IsArrayIndex(k)})
        \o SelectSeq(obj.keys, IsStringKey)

----------------------------------------------------------------------------
(* categorizeTracksByGenre *)

\* variant: the reserved bucket is created up front
InitialWithUncategorized ==
    [keys |-> <<"Uncategorized">>, vals |-> [k \in {"Uncategorized"} |-> <<>>]]

\* const categorized = {}
InitialCategorized == EmptyObject

\* variant: a track already in the bucket is not pushed again
PushTrackOnce(st, genre, track) ==
    IF st.thrown THEN st
    ELSE LET made == IF ~Truthy(st.obj, genre)
                     THEN SetProperty(st.obj, genre, <<>>)
                     ELSE st.obj
         IN IF ~HasOwn(made, genre) THEN [obj |-> made, thrown |-> TRUE]
            ELSE IF track \in Range(made.vals[genre])
                 THEN [obj |-> made, thrown |-> FALSE]
                 ELSE [obj |-> SetProperty(made, genre,
                                           Append(made.vals[genre], track)),
                       thrown |-> FALSE]

\* variant: the push is the else branch of the bucket's creation
PushTrackElse(st, genre, track) ==
    IF st.thrown THEN st
    ELSE IF ~Truthy(st.obj, genre)
         THEN [obj |-> SetProperty(st.obj, genre, <<>>), thrown |-> FALSE]
         ELSE IF HasOwn(st.obj, genre)
              THEN [obj |-> SetProperty(st.obj, genre,
                                        Append(st.obj.vals[genre], track)),
                    thrown |-> FALSE]
              ELSE [obj |-> st.obj, thrown |-> TRUE]

\* variant: unshift instead of push
PushTrackFront(st, genre, track) ==
    IF st.thrown THEN st
    ELSE LET made == IF ~Truthy(st.obj, genre)
                     THEN SetProperty(st.obj, genre, <<>>)
                     ELSE st.obj
         IN IF HasOwn(made, genre)
            THEN [obj |-> SetProperty(made, genre,
                                      <<track>> \o made.vals[genre]),
                  thrown |-> FALSE]
            ELSE [obj |-> made, thrown |-> TRUE]

\* if (!categorized[genre]) categorized[genre] = [];
\* categorized[genre].push(track);      -- TypeError when categorized[genre]
\* is an inherited member of Object.prototype, which has no push
PushTrack(st, genre, track) ==
    IF st.thrown THEN st
    ELSE LET made == IF ~Truthy(st.obj, genre)
                     THEN SetProperty(st.obj, genre, <<>>)
                     ELSE st.obj
         IN IF HasOwn(made, genre)
            THEN [obj |-> SetProperty(made, genre,
                                      Append(made.vals[genre], track)),
                  thrown |-> FALSE]
            ELSE [obj |-> made, thrown |-> TRUE]

\* track.genres.forEach(genre => ...)
RECURSIVE ForEachGenre(_, _, _)
ForEachGenre(st, genres, track) ==
    IF genres = <<>> THEN st
    ELSE ForEachGenre(PushTrack(st, Head(genres), track), Tail(genres), track)

\* track.genres && track.genres.length > 0
HasGenres(track) == "genres" \in DOMAIN track /\ Len(track.genres) > 0

\* variant: a track goes to the bucket of its first genre only
AddTrackFirstGenre(st, track) ==
    IF "genres" \in DOMAIN track /\ Len(track.genres) > 0
    THEN PushTrack(st, track.genres[1], track)
    ELSE PushTrack(st, "Uncategorized", track)

\* body of tracks.forEach(track => ...)
AddTrack(st, track) ==
    IF HasGenres(track)
    THEN ForEachGenre(st, track.genres, track)
    ELSE PushTrack(st, "Uncategorized", track)

RECURSIVE ForEachTrack(_, _)
ForEachTrack(st, ts) ==
    IF ts = <<>> THEN st
    ELSE ForEachTrack(AddTrack(st, Head(ts)), Tail(ts))

\* place of key k in a list already sorted by descending bucket length:
\* behind every key whose bucket is at least as long (stable)
InsertBySize(sorted, k, obj) ==
    LET n == Cardinality({i \in DOMAIN sorted :
                 Len(obj.vals[sorted[i]]) >= Len(obj.vals[k])})
    IN SubSeq(sorted, 1, n) \o <<k>> \o SubSeq(sorted, n + 1, Len(sorted))

\* keys.sort((a, b) => categorized[b].length - categorized[a].length)
RECURSIVE SortBySize(_, _)
SortBySize(keys, obj) ==
    IF keys = <<>> THEN <<>>
    ELSE InsertBySize(SortBySize(SubSeq(keys, 1, Len(keys) - 1), obj),
                      keys[Len(keys)], obj)

\* .forEach(genre => { sortedCategories[genre] = categorized[genre]; })
RECURSIVE CopyInOrder(_, _, _)
CopyInOrder(sortedCategories, keys, categorized) ==
    IF keys = <<>> THEN sortedCategories
    ELSE CopyInOrder(
             SetProperty(sortedCategories, Head(keys), categorized.vals[Head(keys)]),
             Tail(keys), categorized)

categorizeTracksByGenre(ts) ==
    LET st == ForEachTrack([obj |-> InitialCategorized, thrown |-> FALSE], ts)
        categorized == st.obj
    IN IF st.thrown
       THEN [thrown |-> TRUE, obj |-> EmptyObject]
       ELSE [thrown |-> FALSE,
             obj |-> CopyInOrder(EmptyObject,
                                 SortBySize(OwnKeys(categorized), categorized),
                                 categorized)]

----------------------------------------------------------------------------
(* Inputs *)

\* An input list is drawn as a shape, the number of labels of each track
\* (NoField for a track without genres field, as fetched), and the labels
\* of all tracks in one row.
NoField == -1

Count(c) == IF c = NoField THEN 0 ELSE c

RECURSIVE ShapeSum(_, _)
ShapeSum(shape, n) ==
    IF n = 0 THEN 0 ELSE Count(shape[n]) + ShapeSum(shape, n - 1)

\* the shapes of at most n tracks with at most k entries in all, each track
\* having at least low entries
Shapes(n, k, low) ==
    UNION {{sh \in [1..m -> low..k] : ShapeSum(sh, m) <= k} : m \in 0..n}

\* the entries of track i in the row
Slice(shape, row, i) ==
    SubSeq(row, ShapeSum(shape, i - 1) + 1, ShapeSum(shape, i))

\* track number i of an input list: its identity is its place in the list
MakeTrack(shape, row, i) ==
    IF shape[i] = NoField
    THEN [id |-> i]
    ELSE [id |-> i, genres |-> Slice(shape, row, i)]

----------------------------------------------------------------------------
(* Specification of the categorizer *)

NotCalled == [thrown |-> FALSE, obj |-> EmptyObject]

NoResponse == [kind |-> "none"]

\* localStorage.getItem gives null for an entry that is not there
Null == "null"

NoStorage == [access_token |-> Null, token_expiry |-> Null, verifier |-> Null]

\* the page start is not part of the run
AuthOff ==
    /\ storage = NoStorage
    /\ urlCode = FALSE
    /\ authPc = "off"
    /\ accessToken = Null
    /\ failed = {}
    /\ redirects = <<>>
    /\ redirectPc = "none"

Init ==
    /\ \E shape \in Shapes(MaxTracks, MaxLabels, NoField) :
           \E row \in [1..ShapeSum(shape, Len(shape)) -> GenreLabels] :
               tracks = [i \in DOMAIN shape |-> MakeTrack(shape, row, i)]
    /\ catPc = "ready"
    /\ result = NotCalled
    /\ replay = NotCalled
    /\ enrPc = "off"
    /\ requests = <<>>
    /\ response = NoResponse
    /\ enriched = <<>>
    /\ AuthOff

Categorize ==
    /\ catPc = "ready"
    /\ result' = categorizeTracksByGenre(tracks)
    /\ catPc' = IF result'.thrown THEN "threw" ELSE "categorized"
    /\ UNCHANGED <<tracks, replay>>
    /\ UNCHANGED enrVars
    /\ UNCHANGED authVars

\* Object.values(result).flat(), optionally with repeated tracks removed
Flatten(obj, dedupe) ==
    LET RECURSIVE Concat(_)
        Concat(keys) ==
            IF keys = <<>> THEN <<>>
            ELSE obj.vals[Head(keys)] \o Concat(Tail(keys))
        flat == Concat(OwnKeys(obj))
    IN IF dedupe THEN Unique(flat) ELSE flat

Recategorize ==
    /\ catPc = "categorized"
    /\ \E dedupe \in BOOLEAN :
           replay' = categorizeTracksByGenre(Flatten(result.obj, dedupe))
    /\ catPc' = "replayed"
    /\ UNCHANGED <<tracks, result>>
    /\ UNCHANGED enrVars
    /\ UNCHANGED authVars

Next == Categorize \/ Recategorize

Spec == Init /\ [][Next]_vars

----------------------------------------------------------------------------
(* enrichTracksWithGenres and fetchArtistGenres *)

ArtistIds == {"a1", "a2"}

\* labels of the catalog answers
CatalogLabels == {"rock", "pop"}

\* tracks.flatMap(track => track.artists.map(artist => artist.id))
RECURSIVE AllArtistIds(_)
AllArtistIds(ts) ==
    IF ts = <<>> THEN <<>>
    ELSE [i \in DOMAIN Head(ts).artists |-> Head(ts).artists[i].id]
             \o AllArtistIds(Tail(ts))

\* variant: the ids are not passed through a Set
artistIdsRepeated(ts) == AllArtistIds(ts)

\* const artistIds = [...new Set(...)]
artistIds(ts) == Unique(AllArtistIds(ts))

\* artistGenreMap[artist.id] || []
GenresOfArtist(artistGenreMap, artist) ==
    IF artist.id \in DOMAIN artistGenreMap.map
    THEN artistGenreMap.map[artist.id]
    ELSE <<>>

\* track.artists.flatMap(artist => artistGenreMap[artist.id] || [])
RECURSIVE FlatMapGenres(_, _)
FlatMapGenres(artists, artistGenreMap) ==
    IF artists = <<>> THEN <<>>
    ELSE GenresOfArtist(artistGenreMap, Head(artists))
             \o FlatMapGenres(Tail(artists), artistGenreMap)

\* variant: the labels are not passed through a Set
TrackGenresRepeated(track, artistGenreMap) ==
    FlatMapGenres(track.artists, artistGenreMap)

\* genres: [...new Set(track.artists.flatMap(...))]
TrackGenres(track, artistGenreMap) ==
    Unique(FlatMapGenres(track.artists, artistGenreMap))

\* ({...track, genres: ...})
EnrichTrack(track, artistGenreMap) ==
    [f \in DOMAIN track \cup {"genres"} |->
        IF f = "genres" THEN TrackGenres(track, artistGenreMap) ELSE track[f]]

\* variant: tracks left without a genre are filtered out
MapTracksWithGenres(ts, artistGenreMap) ==
    LET all == [i \in DOMAIN ts |-> EnrichTrack(ts[i], artistGenreMap)]
        Kept(t) == t.genres # <<>>
    IN SelectSeq(all, Kept)

\* tracks.map(track => ...)
MapTracks(ts, artistGenreMap) ==
    [i \in DOMAIN ts |-> EnrichTrack(ts[i], artistGenreMap)]

\* artistGenreMap[artist.id] is evaluated for some artist of some track
ReadsMap(ts) == \E i \in DOMAIN ts : ts[i].artists # <<>>

\* what follows `await fetchArtistGenres(...)` once result.json() gave
\* body: a property read of null is a TypeError
ContinueEnrich(ts, body) ==
    IF body.kind = "null" /\ ReadsMap(ts)
    THEN [thrown |-> TRUE, value |-> <<>>]
    ELSE [thrown |-> FALSE,
          value |-> MapTracks(ts, IF body.kind = "null"
                                  THEN [kind |-> "object", map |-> <<>>]
                                  ELSE body)]

(* Inputs of the enricher *)

\* a track as fetched has no genres field; one enriched before has
StaleGenres == <<"stale">>

\* track number i of an input list, its artists taken from the row
MakeRawTrack(shape, row, stale, i) ==
    LET artists == [a \in DOMAIN Slice(shape, row, i) |->
                       [id |-> Slice(shape, row, i)[a]]]
    IN IF stale[i]
       THEN [id |-> i, artists |-> artists, genres |-> StaleGenres]
       ELSE [id |-> i, artists |-> artists]

CatalogLists == UNION {[1..n -> CatalogLabels] : n \in 0..MaxCatalogLabels}

CatalogSize(c) ==
    LET RECURSIVE Sum(_)
        Sum(S) == IF S = {} THEN 0
                  ELSE LET a == CHOOSE x \in S : TRUE
                       IN Len(c[a]) + Sum(S \ {a})
    IN Sum(DOMAIN c)

\* the artist-to-genres objects the backend may answer with: an artist the
\* catalog does not know has no entry
Catalogs ==
    UNION {{c \in [S -> CatalogLists] : CatalogSize(c) <= MaxCatalogLabels} :
           S \in SUBSET ArtistIds}

InitEnrich ==
    /\ \E shape \in Shapes(MaxEnrichTracks, MaxArtistRefs, 0) :
           \E row \in [1..ShapeSum(shape, Len(shape)) -> ArtistIds],
              stale \in [DOMAIN shape -> BOOLEAN] :
               tracks = [i \in DOMAIN shape |->
                            MakeRawTrack(shape, row, stale, i)]
    /\ catPc = "off"
    /\ result = NotCalled
    /\ replay = NotCalled
    /\ enrPc = "ready"
    /\ requests = <<>>
    /\ response = NoResponse
    /\ enriched = <<>>
    /\ AuthOff

\* enrichTracksWithGenres up to its await: the fetch of fetchArtistGenres
\* is issued with the distinct artist ids
EnrichCall ==
    /\ enrPc = "ready"
    /\ requests' = Append(requests, artistIds(tracks))
    /\ enrPc' = "awaiting"
    /\ UNCHANGED <<tracks, response, enriched>>
    /\ UNCHANGED catVars
    /\ UNCHANGED authVars

\* fetch rejects (the backend cannot be reached): the await throws
FetchRejects ==
    /\ enrPc = "awaiting"
    /\ response' = [kind |-> "network_error"]
    /\ enrPc' = "threw"
    /\ UNCHANGED <<tracks, requests, enriched>>
    /\ UNCHANGED catVars
    /\ UNCHANGED authVars

\* fetch resolves with a body that is no JSON (an HTML error page):
\* result.json() rejects, whatever the status
FetchRespondsNotJson ==
    /\ enrPc = "awaiting"
    /\ \E status \in {200, 401, 500} :
           response' = [kind |-> "http", status |-> status,
                        body |-> [kind |-> "text"]]
    /\ enrPc' = "threw"
    /\ UNCHANGED <<tracks, requests, enriched>>
    /\ UNCHANGED catVars
    /\ UNCHANGED authVars

\* the rest of enrichTracksWithGenres once result.json() gave body; the
\* status of the response is never read
Resume(status, body) ==
    LET done == ContinueEnrich(tracks, body)
    IN /\ response' = [kind |-> "http", status |-> status, body |-> body]
       /\ enrPc' = IF done.thrown THEN "threw" ELSE "returned"
       /\ enriched' = done.value
       /\ UNCHANGED <<tracks, requests>>
       /\ UNCHANGED catVars
       /\ UNCHANGED authVars

\* 200 with the artist-to-genres object
FetchRespondsCatalog ==
    /\ enrPc = "awaiting"
    /\ \E c \in Catalogs : Resume(200, [kind |-> "object", map |-> c])

\* the credential is rejected or the backend fails: an error status with a
\* JSON error object as body
FetchRespondsError ==
    /\ enrPc = "awaiting"
    /\ \E status \in {401, 500} :
           Resume(status, [kind |-> "object",
                           map |-> ("error" :> "request failed")])

\* a JSON body of another shape: null
FetchRespondsNull ==
    /\ enrPc = "awaiting"
    /\ \E status \in {200, 500} : Resume(status, [kind |-> "null"])

NextEnrich ==
    \/ EnrichCall
    \/ FetchRejects
    \/ FetchRespondsNotJson
    \/ FetchRespondsCatalog
    \/ FetchRespondsError
    \/ FetchRespondsNull

SpecEnrich == InitEnrich /\ [][NextEnrich]_vars

----------------------------------------------------------------------------
(* init, loadUserData and redirectToAuthCodeFlow *)

\* what localStorage may hold when the page starts, and what the page
\* writes: String(undefined) is stored for an access token that is undefined
StoredTokens == {Null, "tokenA", "undefined"}
StoredExpiries == {Null, "past", "future"}
StoredVerifiers == {Null, "verifierA"}

\* Date.now() < parseInt(tokenExpiry)
NotExpired(expiry) == expiry = "future"

\* storedToken && tokenExpiry && Date.now() < parseInt(tokenExpiry)
StoredTokenValid(st) ==
    /\ st.access_token # Null
    /\ st.token_expiry # Null
    /\ NotExpired(st.token_expiry)

\* How an awaited `fetch(...)` followed by `result.json()` can end:
\* "ok", the body asked for; "error", an error status with a JSON error
\* object as body, which resolves like any other body; and a rejection
\* (no connection, or a body that is no JSON), which throws.
\* A request carrying "Bearer undefined" is never answered "ok".
Answers(token) == IF token = "undefined" THEN {"error"} ELSE {"ok", "error"}

\* const { access_token } = await result.json(): undefined when the body
\* of the token endpoint has no such member
TokenOf(answer) == IF answer = "ok" THEN "tokenB" ELSE "undefined"

\* displayCategorizedTracks(body): for an error object, whose member is no
\* array, tracks.slice(0, 3).forEach is a TypeError
DisplayThrows(answer) == answer = "error"

\* localStorage.removeItem of access_token, token_expiry and verifier
RemoveTokens(st) ==
    [st EXCEPT !.access_token = Null, !.token_expiry = Null, !.verifier = Null]

\* redirectToAuthCodeFlow(clientId) is called, not awaited: it runs up to
\* its await of generateCodeChallenge
CallRedirect(reason, st) ==
    /\ redirects' = Append(redirects, [reason |-> reason, storage |-> st])
    /\ redirectPc' = "hashing"

\* the catch block of init and the one of loadUserData
Catch(request, reason) ==
    /\ failed' = failed \cup {request}
    /\ storage' = RemoveTokens(storage)
    /\ CallRedirect(reason, RemoveTokens(storage))
    /\ authPc' = "done"
    /\ UNCHANGED <<urlCode, accessToken>>

Untouched == UNCHANGED <<tracks, catPc, result, replay,
                         enrPc, requests, response, enriched>>

InitAuth ==
    /\ tracks = <<>>
    /\ catPc = "off"
    /\ result = NotCalled
    /\ replay = NotCalled
    /\ enrPc = "off"
    /\ requests = <<>>
    /\ response = NoResponse
    /\ enriched = <<>>
    /\ storage \in [access_token : StoredTokens,
                     token_expiry : StoredExpiries,
                     verifier : StoredVerifiers]
    /\ urlCode \in BOOLEAN
    /\ authPc = "start"
    /\ accessToken = Null
    /\ failed = {}
    /\ redirects = <<>>
    /\ redirectPc = "none"

\* init: the stored token is still valid, loadUserData(storedToken) runs up
\* to its await of fetchProfile
InitUseStored ==
    /\ authPc = "start"
    /\ StoredTokenValid(storage)
    /\ accessToken' = storage.access_token
    /\ authPc' = "profile"
    /\ UNCHANGED <<storage, urlCode, failed, redirects, redirectPc>>
    /\ Untouched

\* init: no valid token but a code, up to the await of getAccessToken
InitExchange ==
    /\ authPc = "start"
    /\ ~StoredTokenValid(storage)
    /\ urlCode
    /\ authPc' = "exchanging"
    /\ UNCHANGED <<storage, urlCode, accessToken, failed, redirects, redirectPc>>
    /\ Untouched

\* init: neither a valid token nor a code
InitRedirect ==
    /\ authPc = "start"
    /\ ~StoredTokenValid(storage)
    /\ ~urlCode
    /\ CallRedirect("no_credentials", storage)
    /\ authPc' = "done"
    /\ UNCHANGED <<storage, urlCode, accessToken, failed>>
    /\ Untouched

\* getAccessToken throws: the catch block of init
ExchangeThrows ==
    /\ authPc = "exchanging"
    /\ Catch("exchange", "exchange_failed")
    /\ Untouched

\* getAccessToken returns: the token is stored with its expiry, the code
\* leaves the URL, and loadUserData(accessToken) runs up to its await of
\* fetchProfile
ExchangeAnswers ==
    /\ authPc = "exchanging"
    /\ \E answer \in {"ok", "error"} :
           /\ storage' = [storage EXCEPT !.access_token = TokenOf(answer),
                                         !.token_expiry = "future"]
           /\ accessToken' = TokenOf(answer)
           /\ failed' = IF answer = "error" THEN failed \cup {"exchange"}
                        ELSE failed
    /\ urlCode' = FALSE
    /\ authPc' = "profile"
    /\ UNCHANGED <<redirects, redirectPc>>
    /\ Untouched

\* fetchProfile throws: the catch block of loadUserData
ProfileThrows ==
    /\ authPc = "profile"
    /\ Catch("profile", "load_failed")
    /\ Untouched

\* fetchProfile returns a body, up to the await of fetchCategorizedTracks
ProfileAnswers ==
    /\ authPc = "profile"
    /\ \E answer \in Answers(accessToken) :
           failed' = IF answer = "error" THEN failed \cup {"profile"} ELSE failed
    /\ authPc' = "tracks"
    /\ UNCHANGED <<storage, urlCode, accessToken, redirects, redirectPc>>
    /\ Untouched

\* fetchCategorizedTracks throws: the catch block of loadUserData
TracksThrows ==
    /\ authPc = "tracks"
    /\ Catch("tracks", "load_failed")
    /\ Untouched

\* fetchCategorizedTracks returns a body and displayCategorizedTracks runs
TracksAnswers ==
    /\ authPc = "tracks"
    /\ \E answer \in Answers(accessToken) :
           IF DisplayThrows(answer)
           THEN Catch("tracks", "load_failed")
           ELSE /\ authPc' = "done"
                /\ UNCHANGED <<storage, urlCode, accessToken, failed,
                               redirects, redirectPc>>
    /\ Untouched

\* redirectToAuthCodeFlow after its await: the new verifier is stored and
\* document.location is set
RedirectNavigates ==
    /\ redirectPc = "hashing"
    /\ storage' = [storage EXCEPT !.verifier = "verifierB"]
    /\ redirectPc' = "navigated"
    /\ UNCHANGED <<urlCode, authPc, accessToken, failed, redirects>>
    /\ Untouched

NextAuth ==
    \/ InitUseStored
    \/ InitExchange
    \/ InitRedirect
    \/ ExchangeThrows
    \/ ExchangeAnswers
    \/ ProfileThrows
    \/ ProfileAnswers
    \/ TracksThrows
    \/ TracksAnswers
    \/ RedirectNavigates

SpecAuth == InitAuth /\ [][NextAuth]_vars

----------------------------------------------------------------------------
(* Properties of categorizeTracksByGenre, checked under Spec.  A call     *)
(* that ends in the TypeError of PushTrack returns no mapping; the         *)
(* properties of the returned mapping are stated for catPc "categorized"   *)
(* and "replayed".                                                         *)

Returned == catPc \in {"categorized", "replayed"}

\* the genre labels a track carries, as a list and as a set
GenreList(track) == IF "genres" \in DOMAIN track THEN track.genres ELSE <<>>
LabelsOf(track) == Range(GenreList(track))

Buckets(obj) == Range(OwnKeys(obj))

RECURSIVE SumLengths(_, _)
SumLengths(obj, keys) ==
    IF keys = <<>> THEN 0
    ELSE Len(obj.vals[Head(keys)]) + SumLengths(obj, Tail(keys))

RECURSIVE FanOut(_)
FanOut(ts) ==
    IF ts = <<>> THEN 0
    ELSE (IF Len(GenreList(Head(ts))) > 1 THEN Len(GenreList(Head(ts))) ELSE 1)
             + FanOut(Tail(ts))

BucketsHolding(obj, track) ==
    {k \in Buckets(obj) : track \in Range(obj.vals[k])}

RECURSIVE ScanLabels(_)
ScanLabels(ts) ==
    IF ts = <<>> THEN <<>>
    ELSE (IF GenreList(Head(ts)) = <<>> THEN <<"Uncategorized">>
          ELSE GenreList(Head(ts))) \o ScanLabels(Tail(ts))

FirstSeen(ts) == Unique(ScanLabels(ts))

Place(seq, x) == CHOOSE i \in DOMAIN seq : seq[i] = x

\* C3: the keys of the result are in descending order of bucket size, and
\* keys of equally long buckets are in the order their buckets were first
\* created, for every genre label
C3_KeysBySizeThenFirstSeen ==
    Returned =>
        LET keys == OwnKeys(result.obj)
            size(k) == Len(result.obj.vals[k])
            seen == FirstSeen(tracks)
        IN \A i, j \in DOMAIN keys :
               i < j =>
                   \/ size(keys[i]) > size(keys[j])
                   \/ /\ size(keys[i]) = size(keys[j])
                      /\ Place(seen, keys[i]) < Place(seen, keys[j])

\* the same order for inputs none of whose labels is an array index
KeysBySizeThenFirstSeenOfNames ==
    (Returned /\ \A i \in DOMAIN tracks :
                     \A l \in LabelsOf(tracks[i]) : ~IsArrayIndex(l))
        => C3_KeysBySizeThenFirstSeen

InputPlace(track) == CHOOSE i \in DOMAIN tracks : tracks[i] = track

\* C8: in every bucket of the result, a track that precedes another in the
\* input precedes it in the bucket
C8_BucketKeepsInputOrder ==
    Returned =>
        \A k \in Buckets(result.obj) :
            LET bucket == result.obj.vals[k]
            IN \A p, q \in DOMAIN bucket :
                   InputPlace(bucket[p]) < InputPlace(bucket[q]) => p < q

\* a result whose buckets were re-ordered by size and in which a bucket
\* holds two different tracks
C8_Witness ==
    /\ catPc = "categorized"
    /\ \E k, l \in Buckets(result.obj) :
           /\ Place(FirstSeen(tracks), k) < Place(FirstSeen(tracks), l)
           /\ Place(OwnKeys(result.obj), l) < Place(OwnKeys(result.obj), k)
           /\ ~IsArrayIndex(l)
           /\ Cardinality(Range(result.obj.vals[l])) >= 2

\* C10: the empty list gives a mapping without any bucket, and no result
\* has an empty bucket
C10_NoEmptyBucket ==
    Returned =>
        /\ tracks = <<>> =>
               result.obj.keys = <<>> /\ ~HasOwn(result.obj, "Uncategorized")
        /\ \A k \in Buckets(result.obj) : Len(result.obj.vals[k]) >= 1

\* the result of the empty list
C10_Witness ==
    /\ catPc = "categorized"
    /\ tracks = <<>>
    /\ OwnKeys(result.obj) = <<>>

\* the tracks in the bucket labelled "Uncategorized" of a mapping
UncategorizedTracks(obj) ==
    IF HasOwn(obj, "Uncategorized") THEN Range(obj.vals["Uncategorized"])
    ELSE {}

\* C12: in every result, a track is in the bucket labelled "Uncategorized"
\* if and only if its genre list is empty, whatever labels the tracks carry
C12_UncategorizedIsReserved ==
    Returned =>
        \A i \in DOMAIN tracks :
            tracks[i] \in UncategorizedTracks(result.obj)
                <=> GenreList(tracks[i]) = <<>>

\* what holds instead: the bucket also takes the tracks that carry the
\* label "Uncategorized" itself
UncategorizedHoldsEmptyOrSoLabelled ==
    Returned =>
        \A i \in DOMAIN tracks :
            tracks[i] \in UncategorizedTracks(result.obj)
                <=> \/ GenreList(tracks[i]) = <<>>
                    \/ "Uncategorized" \in LabelsOf(tracks[i])

----------------------------------------------------------------------------
(* Properties of enrichTracksWithGenres, checked under SpecEnrich *)

\* the lookup failed: no answer, an error status, or a body that is not the
\* artist-to-genres object
LookupFailed ==
    \/ response.kind = "network_error"
    \/ /\ response.kind = "http"
       /\ \/ response.status # 200
          \/ response.body.kind # "object"

\* C4: a failed catalog lookup makes enrichTracksWithGenres fail as a
\* whole: no run whose lookup failed returns enriched tracks, which would
\* be tracks a lookup that found no genres returns as well
C4_FailedLookupFails ==
    LookupFailed => ~(enrPc = "returned" /\ enriched # <<>>)

\* the ids of the artists of a track that the catalog knows, by place
Known(track, catalog) ==
    {a \in DOMAIN track.artists : track.artists[a].id \in DOMAIN catalog}

\* the places (artist, index in the artist's list) where label x occurs
Occurrences(track, catalog, x) ==
    {<<a, n>> \in Known(track, catalog) \X (1..MaxCatalogLabels) :
        /\ n \in DOMAIN catalog[track.artists[a].id]
        /\ catalog[track.artists[a].id][n] = x}

Before(o1, o2) == o1[1] < o2[1] \/ (o1[1] = o2[1] /\ o1[2] < o2[2])

FirstOccurrence(track, catalog, x) ==
    CHOOSE o \in Occurrences(track, catalog, x) :
        \A o2 \in Occurrences(track, catalog, x) : o = o2 \/ Before(o, o2)

\* C5: the genre list of every output track is the duplicate-free union of
\* the catalog's lists for the track's artists, in first-seen order; an
\* artist without a catalog entry contributes nothing
C5_GenresAreFirstSeenUnion ==
    (enrPc = "returned" /\ response.body.kind = "object") =>
        \A i \in DOMAIN tracks :
            LET catalog == response.body.map
                track == tracks[i]
                genres == enriched[i].genres
            IN /\ \A p, q \in DOMAIN genres : p # q => genres[p] # genres[q]
               /\ Range(genres) =
                      UNION {Range(catalog[track.artists[a].id]) :
                                a \in Known(track, catalog)}
               /\ \A p, q \in DOMAIN genres :
                      p < q => Before(FirstOccurrence(track, catalog, genres[p]),
                                      FirstOccurrence(track, catalog, genres[q]))
               /\ Known(track, catalog) = {} => genres = <<>>

\* a returned list with a track whose artists repeat a label, so that the
\* union is shorter than the concatenation, next to a track all of whose
\* artists the catalog does not know
C5_Witness ==
    /\ enrPc = "returned"
    /\ response.status = 200
    /\ response.body.kind = "object"
    /\ \E i, j \in DOMAIN tracks :
           /\ Len(enriched[i].genres) = 2
           /\ Len(FlatMapGenres(tracks[i].artists, response.body)) > 2
           /\ tracks[j].artists # <<>>
           /\ Known(tracks[j], response.body.map) = {}
           /\ enriched[j].genres = <<>>

\* C6: the output has the length of the input, and the track at each place
\* has the identifier and every field but genres of the input track there
C6_OnlyGenresChange ==
    enrPc = "returned" =>
        /\ Len(enriched) = Len(tracks)
        /\ \A i \in DOMAIN tracks :
               /\ DOMAIN enriched[i] = DOMAIN tracks[i] \cup {"genres"}
               /\ \A f \in DOMAIN tracks[i] \ {"genres"} :
                      enriched[i][f] = tracks[i][f]

\* a returned list of two tracks, one of which had a genres field before
\* and is left without a label
C6_Witness ==
    /\ enrPc = "returned"
    /\ Len(enriched) = 2
    /\ \E i \in DOMAIN tracks :
           /\ "genres" \in DOMAIN tracks[i]
           /\ enriched[i].genres = <<>>
           /\ enriched[i].artists # <<>>

\* the artist ids occurring in the artist lists of the input
ArtistsOfInput ==
    UNION {{tracks[i].artists[a].id : a \in DOMAIN tracks[i].artists} :
              i \in DOMAIN tracks}

\* C9: a run issues one catalog lookup, with the distinct artist ids of the
\* input, each once
C9_OneLookupOfDistinctIds ==
    /\ Len(requests) <= 1
    /\ enrPc = "ready" => requests = <<>>
    /\ enrPc \in {"awaiting", "returned", "threw"} =>
           /\ Len(requests) = 1
           /\ Range(requests[1]) = ArtistsOfInput
           /\ Len(requests[1]) = Cardinality(ArtistsOfInput)

\* a finished run over two tracks that share an artist
C9_Witness ==
    /\ enrPc = "returned"
    /\ Len(tracks) = 2
    /\ \E a \in DOMAIN tracks[1].artists, b \in DOMAIN tracks[2].artists :
           tracks[1].artists[a] = tracks[2].artists[b]
    /\ Cardinality(ArtistsOfInput) = 2
    /\ Len(requests) = 1

----------------------------------------------------------------------------
(* Properties of init and loadUserData, checked under SpecAuth *)

\* the redirects started because a request failed
FailureRedirects ==
    {i \in DOMAIN redirects : redirects[i].reason # "no_credentials"}

\* C11: whenever the token exchange, the loading of the profile or the
\* loading of the categorized tracks fails, access_token, token_expiry and
\* verifier are removed from localStorage before the redirect is started,
\* no stored access token survives the failure, and exactly one redirect
\* is started for it
C11_FailureClearsAndRedirectsOnce ==
    /\ \A i \in FailureRedirects : redirects[i].storage = NoStorage
    /\ (authPc = "done" /\ failed # {}) =>
           /\ Len(redirects) = 1
           /\ storage.access_token = Null
           /\ storage.token_expiry = Null

\* the same for the failures that reach a catch block: a request that
\* throws, or an error body that makes displayCategorizedTracks throw
CaughtFailureClearsAndRedirectsOnce ==
    /\ Len(redirects) <= 1
    /\ \A i \in FailureRedirects :
           /\ redirects[i].storage = NoStorage
           /\ storage.access_token = Null
           /\ storage.token_expiry = Null
           /\ authPc = "done"

====
